---- MODULE Spec2Model ----
(***************************************************************************)
(* Model of the MSSQL attendance synchronisation of                        *)
(* attendance/sync/mssql.py: attendance() and its helpers                  *)
(* get_mssql_config, fetch_all_logs, guess_checkin_type,                   *)
(* create_employee_checkin and validate_or_default_sync_time.              *)
(*                                                                         *)
(* Time.  A datetime is an integer number of ticks, TicksPerSec ticks to   *)
(* the second, so that punch times carry sub-second precision while the    *)
(* stored cursor (strftime "%Y-%m-%d %H:%M:%S") is a whole second.  The    *)
(* axis starts at MIN_MSSQL_DATETIME (tick 0); the code only compares a    *)
(* datetime with it (line 323), so the calendar window the model works in  *)
(* (November of Year0 to January of Year0+1, months of 30 days) is placed  *)
(* right after it: month number k = t \div TicksPerMonth, k = 0 November,  *)
(* k = 1 December, k = 2 January.                                          *)
(***************************************************************************)
EXTENDS Integers, Sequences, FiniteSets, TLC

\* ------------------------------------------------------------------ bounds
MaxRuns == 2
MaxRows == 3
TicksPerSec == 2
Year0 == 2025

\* ------------------------------------------------------- program constants
MIN_MSSQL_DATETIME == 0
default_days == 2
MinIntervalSeconds == 1800

\* ---------------------------------------------------------------- calendar
Seconds(s) == s * TicksPerSec
TicksPerDay == Seconds(86400)
TicksPerMonth == 30 * TicksPerDay
timedelta_days(d) == d * TicksPerDay

\* datetime.month and datetime.year of a datetime t >= 0
MonthOf(t) == (((t \div TicksPerMonth) + 10) % 12) + 1
YearOf(t) == Year0 + (((t \div TicksPerMonth) + 10) \div 12)

\* Optional values: None is the empty sequence, a value v is <<v>>.
None == <<>>
Some(v) == <<v>>
Val(o) == o[1]

\* ------------------------------------------------------ the cursor's value
\* The 'last_sync_time' single value: absent, an unparsable string, or a
\* "YYYY-MM-DD HH:MM:SS" string (t: the whole second it denotes, in ticks).
NoCursor == [kind |-> "none", t |-> 0]
BadCursor == [kind |-> "invalid", t |-> 0]
CursorStr(t) == [kind |-> "str", t |-> t]

\* global_max_log_date.strftime("%Y-%m-%d %H:%M:%S"): the fraction is dropped
strftime(t) == CursorStr(t - (t % TicksPerSec))

\* datetime.strptime(dt_val, "%Y-%m-%d %H:%M:%S") of a well-formed string
strptime(c) == c.t

\* validate_or_default_sync_time without the comparison with the minimum
validate_or_default_sync_time_unclamped(dt_val, nowT, days) ==
    IF dt_val.kind = "str" THEN strptime(dt_val) ELSE nowT - timedelta_days(days)

validate_or_default_sync_time(dt_val, nowT, days) ==
    LET result == IF dt_val.kind = "str"
                  THEN strptime(dt_val)
                  ELSE nowT - timedelta_days(days)
    IN  IF result < MIN_MSSQL_DATETIME THEN MIN_MSSQL_DATETIME ELSE result

\* ----------------------------------------------------------- configuration
\* The 'MSSQL Attendance Settings' connection fields; "" is an unset field.
Configs ==
    { [db_host |-> h, db_port |-> p, db_user |-> "sa", db_password |-> w, db_name |-> "etime"] :
        h \in {"", "10.0.0.5"}, p \in {"", "1433", "abc"}, w \in {"", "secret"} }

IsIntString(s) == s \in {"1433"}

\* "config": the dict is returned; "None": the logged early return of an
\* unparsable port; "NameError": line 22 formats the undefined name `missing`.
get_mssql_config(config) ==
    IF \E f \in {"db_host", "db_port", "db_user", "db_password", "db_name"} : config[f] = ""
    THEN "NameError"
    ELSE IF ~IsIntString(config.db_port) THEN "None" ELSE "config"

\* ------------------------------------------------------------------ tables
\* f"[{database}].[dbo].[DeviceLogs_{month}_{year}]"
TableName(month, year) == <<month, year>>

table_current(nowT) == TableName(MonthOf(nowT), YearOf(nowT))

\* table_fallback with the year kept in January
table_fallback_same_year(nowT) ==
    IF MonthOf(nowT) = 1
    THEN TableName(12, YearOf(nowT))
    ELSE TableName(MonthOf(nowT) - 1, YearOf(nowT))

table_fallback(nowT) ==
    IF MonthOf(nowT) = 1
    THEN TableName(12, YearOf(nowT) - 1)
    ELSE TableName(MonthOf(nowT) - 1, YearOf(nowT))

\* The month tables the source database holds.
Tables == { TableName(11, Year0), TableName(12, Year0), TableName(1, Year0 + 1) }

\* ---------------------------------------------------------- the test window
JanStart == 2 * TicksPerMonth
T0 == JanStart - Seconds(MinIntervalSeconds)

\* Punch times: T0 (December 30th 23:30:00, the last day of the model's
\* December), one tick short of 1800 s later, 1800 s later (January 1st
\* 00:00:00), 1801 s later, 3601 s later.
PunchTimes ==
    { T0,
      T0 + Seconds(MinIntervalSeconds) - 1,
      T0 + Seconds(MinIntervalSeconds),
      T0 + Seconds(MinIntervalSeconds + 1),
      T0 + Seconds(2 * MinIntervalSeconds + 1) }

\* Device subject ids; "u9" is registered on the device only.
UserIds == {"u1", "u2", "u9"}

\* The 'Employee' records: attendance_device_id -> name.
EmployeeTable == [u \in {"u1", "u2"} |-> IF u = "u1" THEN "EMP-1" ELSE "EMP-2"]

\* frappe.db.get_value("Employee", {"attendance_device_id": user_id}, "name")
Employee(user_id) ==
    IF user_id \in DOMAIN EmployeeTable THEN Some(EmployeeTable[user_id]) ELSE None

\* The rows the devices may write: UserId, LogDate and the direction hint C1
\* (NULL is "").  u1 punches at every time with the hint "in" and at T0 also
\* with the hint "OUT" (two rows of one user and time); u2 punches around the
\* month boundary; the unregistered u9 punches first and last.
SourceRows ==
    { [UserId |-> "u1", LogDate |-> t, C1 |-> "in"] : t \in PunchTimes }
    \cup { [UserId |-> "u1", LogDate |-> T0, C1 |-> "OUT"] }
    \cup { [UserId |-> "u2", LogDate |-> t, C1 |-> "OUT"] :
             t \in { T0 + Seconds(MinIntervalSeconds) - 1, T0 + Seconds(MinIntervalSeconds) } }
    \cup { [UserId |-> "u9", LogDate |-> t, C1 |-> ""] :
             t \in { T0, T0 + Seconds(2 * MinIntervalSeconds + 1) } }

\* Wall-clock instants at which runs are scheduled: the last tick of December
\* and January 1st 02:00:00.
NowDec == JanStart - 1
NowJan == JanStart + Seconds(7200)
Clock == {NowDec, NowJan}

\* Values the cursor store may hold before the first run.
InitialCursors ==
    { NoCursor, BadCursor, CursorStr(0 - TicksPerDay), CursorStr(T0 + Seconds(MinIntervalSeconds - 1)) }

Slots == {1, 2}

VARIABLES
    now,                  \* the wall clock
    tables,               \* source database: table name -> set of rows
    last_sync_time,       \* the stored cursor
    checkins,             \* 'Employee Checkin' records, in creation order
    runs,                 \* number of runs started
    pc,                   \* per run slot: where the run is
    last_sync_raw,        \* per run: the cursor value read at the start
    last_sync_dt,         \* per run: the fetch bound
    logs,                 \* per run: the fetched rows
    i,                    \* per run: index of the row being processed
    global_max_log_date,  \* per run: None or <<max LogDate seen>>
    checkin_count,        \* per run: checkins created
    skipped_count,        \* per run: rows skipped
    doc,                  \* per run: None or <<the checkin about to be saved>>
    outcome,              \* per run: how the slot's latest run ended
    \* history variables: what the log of a run shows
    raised,               \* per run: the exception a row's processing raised last
    len_before,           \* per run: Len(checkins) when the run started
    probes,               \* per run: the tables probed, with the clock reading
    last_pass,            \* None or << <<bound, rows>> >> of the latest loop that
                          \* ran to its end with every save succeeding
    aborted               \* None or << [rows, len] >>: the rows of the run(s) that
                          \* a lookup exception ended after a checkin was created,
                          \* every save succeeding, and Len(checkins) when the
                          \* first of them began;
                          \* None again once the source gets a new row, a save
                          \* raises, a run over other rows creates a checkin or
                          \* a run commits

vars == << now, tables, last_sync_time, checkins, runs, pc, last_sync_raw,
           last_sync_dt, logs, i, global_max_log_date, checkin_count,
           skipped_count, doc, outcome, raised, len_before, probes, last_pass,
           aborted >>

source == << now, tables >>
locals == << last_sync_raw, last_sync_dt, logs, i, global_max_log_date,
             checkin_count, skipped_count, doc >>
history == << raised, len_before, probes, last_pass, aborted >>

Range(f) == { f[k] : k \in DOMAIN f }

\* ------------------------------------------------------------ the fetcher
TotalRows == Cardinality(UNION { tables[n] : n \in Tables })

\* RowsAfter without its WHERE clause
RowsAfter_unbounded(table_name, bound) == tables[table_name]

\* WHERE LogDate > %s
RowsAfter(table_name, bound) == { row \in tables[table_name] : row.LogDate > bound }

\* ORDER BY LogDate ASC: every ascending arrangement (ties in any order)
RECURSIVE Ascending(_)
Ascending(S) ==
    IF S = {} THEN { <<>> }
    ELSE UNION { { <<x>> \o rest : rest \in Ascending(S \ {x}) } :
                 x \in { y \in S : \A z \in S : y.LogDate <= z.LogDate } }

\* fetch_all_logs: the rows after the bound in ascending order, or [] when
\* the query raises pymssql.Error
fetch_all_logs(table_name, bound, queryOk) ==
    IF queryOk THEN Ascending(RowsAfter(table_name, bound)) ELSE { <<>> }

\* ------------------------------------------------------ checkin history
\* CheckinsOf filtering on a key no record carries (the device id instead of
\* the employee name): nothing matches
CheckinsOf_wrong_key(employee_id) ==
    { checkins[k] : k \in { j \in 1..Len(checkins) : checkins[j].employee = "u1" } }

\* The 'Employee Checkin' records of an employee: filter {"employee": e}
CheckinsOf(employee_id) ==
    { checkins[k] : k \in { j \in 1..Len(checkins) : checkins[j].employee = employee_id } }

\* frappe.db.exists("Employee Checkin", {"employee": e, "time": t})
exists(employee_id, log_datetime) ==
    \E c \in CheckinsOf(employee_id) : c.time = log_datetime

\* frappe.db.get_value("Employee Checkin", {"employee": e}, ..., order_by="time DESC"):
\* the first record in descending time order, any of them on a tie, None when
\* the employee has no record
most_recent(employee_id) ==
    IF CheckinsOf(employee_id) = {} THEN { None }
    ELSE { Some(c) : c \in { d \in CheckinsOf(employee_id) :
                              \A e \in CheckinsOf(employee_id) : e.time <= d.time } }

\* str.lower() and str.upper() on the strings of the model
lower(s) == CASE s = "OUT" -> "out" [] s = "IN" -> "in" [] OTHER -> s
upper(s) == CASE s = "out" -> "OUT" [] s = "in" -> "IN" [] OTHER -> s

\* guess_checkin_type with the trust path of lines 234-236 uncommented: a hint
\* "in" or "out" is the direction (title() here, upper() at the save)
guess_checkin_type_trusts_hint(employee_device_id, suggested_direction, last_checkin) ==
    IF suggested_direction \in {"in", "out"} THEN suggested_direction
    ELSE IF Employee(employee_device_id) = None THEN "IN"
    ELSE IF last_checkin # None /\ Val(last_checkin).log_type = "IN" THEN "OUT" ELSE "IN"

\* guess_checkin_type comparing the log_type with "in": never "OUT"
guess_checkin_type_case(employee_device_id, suggested_direction, last_checkin) ==
    IF Employee(employee_device_id) = None THEN "IN"
    ELSE IF last_checkin # None /\ Val(last_checkin).log_type = "in" THEN "OUT" ELSE "IN"

\* guess_checkin_type, given the answer of its most-recent-checkin query
guess_checkin_type(employee_device_id, suggested_direction, last_checkin) ==
    IF Employee(employee_device_id) = None THEN "IN"
    ELSE IF last_checkin # None /\ Val(last_checkin).log_type = "IN" THEN "OUT" ELSE "IN"

\* within_interval on the absolute difference
within_interval_abs(log_datetime, last_record) ==
    /\ last_record # None
    /\ LET diff == log_datetime - Val(last_record).time
       IN  (IF diff < 0 THEN 0 - diff ELSE diff) < Seconds(MinIntervalSeconds)

\* within_interval with the 30 minutes compared as 30 seconds
within_interval_30(log_datetime, last_record) ==
    /\ last_record # None
    /\ log_datetime - Val(last_record).time < Seconds(MinIntervalSeconds \div 60)

\* within_interval one second short: diff < 1799
within_interval_1799(log_datetime, last_record) ==
    /\ last_record # None
    /\ log_datetime - Val(last_record).time < Seconds(MinIntervalSeconds - 1)

\* within_interval with the boundary included: diff <= 1800
within_interval_le(log_datetime, last_record) ==
    /\ last_record # None
    /\ log_datetime - Val(last_record).time <= Seconds(MinIntervalSeconds)

\* The last-checkin test of create_employee_checkin (lines 283-287)
within_interval(log_datetime, last_record) ==
    /\ last_record # None
    /\ log_datetime - Val(last_record).time < Seconds(MinIntervalSeconds)

\* track_max keeping the first LogDate it saw
track_max_first(current, log_datetime) ==
    IF current = None THEN Some(log_datetime) ELSE current

\* Lines 146-147: the running maximum of LogDate
track_max(current, log_datetime) ==
    IF current = None \/ log_datetime > Val(current) THEN Some(log_datetime) ELSE current

\* -------------------------------------------------------------- the runs
Idle(r) == pc[r] = "IDLE"

\* How a run ends: a return statement or the end of the function body.
EndRun(r, how) ==
    /\ pc' = [pc EXCEPT ![r] = "DONE"]
    /\ outcome' = [outcome EXCEPT ![r] = how]

Init ==
    /\ now \in Clock
    /\ tables = [n \in Tables |-> {}]
    /\ last_sync_time \in InitialCursors
    /\ checkins = <<>>
    /\ runs = 0
    /\ pc = [r \in Slots |-> "IDLE"]
    /\ last_sync_raw = [r \in Slots |-> NoCursor]
    /\ last_sync_dt = [r \in Slots |-> 0]
    /\ logs = [r \in Slots |-> <<>>]
    /\ i = [r \in Slots |-> 0]
    /\ global_max_log_date = [r \in Slots |-> None]
    /\ checkin_count = [r \in Slots |-> 0]
    /\ skipped_count = [r \in Slots |-> 0]
    /\ doc = [r \in Slots |-> None]
    /\ outcome = [r \in Slots |-> "none"]
    /\ raised = [r \in Slots |-> "none"]
    /\ len_before = [r \in Slots |-> 0]
    /\ probes = [r \in Slots |-> <<>>]
    /\ last_pass = None
    /\ aborted = None

\* A device writes a punch into the table of the punch's month.
DeviceLog ==
    /\ \A r \in Slots : Idle(r)
    /\ TotalRows < MaxRows
    /\ \E row \in SourceRows :
         LET n == TableName(MonthOf(row.LogDate), YearOf(row.LogDate))
         IN  /\ row \notin tables[n]
             /\ tables' = [tables EXCEPT ![n] = @ \cup {row}]
    /\ aborted' = None
    /\ UNCHANGED << now, last_sync_time, checkins, runs, pc, locals, outcome,
                    raised, len_before, probes, last_pass >>

\* Time passes between two scheduled runs.
AdvanceClock ==
    /\ \A r \in Slots : Idle(r)
    /\ \E t \in Clock : t > now /\ now' = t
    /\ UNCHANGED << tables, last_sync_time, checkins, runs, pc, locals, outcome, history >>

\* The history variables of a run that begins.
BeginHistory(r) ==
    /\ len_before' = [len_before EXCEPT ![r] = Len(checkins)]
    /\ UNCHANGED << raised, probes, last_pass, aborted >>

\* StartRun behind a lock: a run starts only when no other run is active
StartRun_locked(r) ==
    /\ \A s \in Slots : Idle(s)
    /\ runs < MaxRuns
    /\ \E config \in Configs : get_mssql_config(config) = "config"
    /\ runs' = runs + 1
    /\ pc' = [pc EXCEPT ![r] = "RESOLVING"]
    /\ last_sync_raw' = [last_sync_raw EXCEPT ![r] = last_sync_time]
    /\ last_sync_dt' = [last_sync_dt EXCEPT ![r] =
                          validate_or_default_sync_time(last_sync_time, now, default_days)]
    /\ outcome' = [outcome EXCEPT ![r] = "running"]
    /\ BeginHistory(r)
    /\ UNCHANGED << source, last_sync_time, checkins, logs, i, global_max_log_date,
                    checkin_count, skipped_count, doc >>

\* StartRun storing the sanitised bound back into the cursor store
StartRun_stores_bound(r) ==
    /\ Idle(r)
    /\ runs < MaxRuns
    /\ \E config \in Configs : get_mssql_config(config) = "config"
    /\ runs' = runs + 1
    /\ pc' = [pc EXCEPT ![r] = "RESOLVING"]
    /\ last_sync_raw' = [last_sync_raw EXCEPT ![r] = last_sync_time]
    /\ last_sync_dt' = [last_sync_dt EXCEPT ![r] =
                          validate_or_default_sync_time(last_sync_time, now, default_days)]
    /\ last_sync_time' = strftime(validate_or_default_sync_time(last_sync_time, now,
                                                                default_days))
    /\ outcome' = [outcome EXCEPT ![r] = "running"]
    /\ BeginHistory(r)
    /\ UNCHANGED << source, checkins, logs, i, global_max_log_date,
                    checkin_count, skipped_count, doc >>

\* Lines 52-82 with a valid configuration and a successful connection.
StartRun(r) ==
    /\ Idle(r)
    /\ runs < MaxRuns
    /\ \E config \in Configs : get_mssql_config(config) = "config"
    /\ runs' = runs + 1
    /\ pc' = [pc EXCEPT ![r] = "RESOLVING"]
    /\ last_sync_raw' = [last_sync_raw EXCEPT ![r] = last_sync_time]
    /\ last_sync_dt' = [last_sync_dt EXCEPT ![r] =
                          validate_or_default_sync_time(last_sync_time, now, default_days)]
    /\ outcome' = [outcome EXCEPT ![r] = "running"]
    /\ BeginHistory(r)
    /\ UNCHANGED << source, last_sync_time, checkins, logs, i, global_max_log_date,
                    checkin_count, skipped_count, doc >>

\* Lines 55-63: get_mssql_config returns None (logged return) or raises.
ConfigError(r) ==
    /\ Idle(r)
    /\ runs < MaxRuns
    /\ \E config \in Configs :
         /\ get_mssql_config(config) # "config"
         /\ EndRun(r, IF get_mssql_config(config) = "None" THEN "config_abort" ELSE "raised")
    /\ runs' = runs + 1
    /\ last_sync_raw' = [last_sync_raw EXCEPT ![r] = last_sync_time]
    /\ last_sync_dt' = [last_sync_dt EXCEPT ![r] =
                          validate_or_default_sync_time(last_sync_time, now, default_days)]
    /\ BeginHistory(r)
    /\ UNCHANGED << source, last_sync_time, checkins, logs, i, global_max_log_date,
                    checkin_count, skipped_count, doc >>

\* Lines 55-82: pymssql.connect raises.
ConnectError(r) ==
    /\ Idle(r)
    /\ runs < MaxRuns
    /\ \E config \in Configs : get_mssql_config(config) = "config"
    /\ runs' = runs + 1
    /\ EndRun(r, "connect_abort")
    /\ last_sync_raw' = [last_sync_raw EXCEPT ![r] = last_sync_time]
    /\ last_sync_dt' = [last_sync_dt EXCEPT ![r] =
                          validate_or_default_sync_time(last_sync_time, now, default_days)]
    /\ BeginHistory(r)
    /\ UNCHANGED << source, last_sync_time, checkins, logs, i, global_max_log_date,
                    checkin_count, skipped_count, doc >>

\* Lines 129-135 on the fetched rows: an empty result ends the run.
Fetched(r, rows) ==
    IF rows = <<>>
    THEN /\ EndRun(r, "empty")
         /\ UNCHANGED << logs, i >>
    ELSE /\ pc' = [pc EXCEPT ![r] = "PROCESSING"]
         /\ logs' = [logs EXCEPT ![r] = rows]
         /\ i' = [i EXCEPT ![r] = 1]
         /\ UNCHANGED outcome

Probe(nowT, table_name) == [at |-> nowT, table |-> table_name]

\* Lines 104-108: the probe of the current table succeeds.
ResolveCurrent(r) ==
    /\ pc[r] = "RESOLVING"
    /\ table_current(now) \in Tables
    /\ \E queryOk \in BOOLEAN :
         \E rows \in fetch_all_logs(table_current(now), last_sync_dt[r], queryOk) :
            Fetched(r, rows)
    /\ probes' = [probes EXCEPT ![r] = << Probe(now, table_current(now)) >>]
    /\ UNCHANGED << source, last_sync_time, checkins, runs, last_sync_raw, last_sync_dt,
                    global_max_log_date, checkin_count, skipped_count, doc,
                    raised, len_before, last_pass, aborted >>

\* Lines 109-120: the probe of the current table raises pymssql.Error and the
\* probe of the fallback table succeeds.
ResolveFallback(r) ==
    /\ pc[r] = "RESOLVING"
    /\ table_fallback(now) \in Tables
    /\ \E queryOk \in BOOLEAN :
         \E rows \in fetch_all_logs(table_fallback(now), last_sync_dt[r], queryOk) :
            Fetched(r, rows)
    /\ probes' = [probes EXCEPT ![r] =
                    << Probe(now, table_current(now)), Probe(now, table_fallback(now)) >>]
    /\ UNCHANGED << source, last_sync_time, checkins, runs, last_sync_raw, last_sync_dt,
                    global_max_log_date, checkin_count, skipped_count, doc,
                    raised, len_before, last_pass, aborted >>

\* Lines 121-127: both probes fail.
ResolveError(r) ==
    /\ pc[r] = "RESOLVING"
    /\ EndRun(r, "source_abort")
    /\ UNCHANGED << logs, i >>
    /\ probes' = [probes EXCEPT ![r] =
                    << Probe(now, table_current(now)), Probe(now, table_fallback(now)) >>]
    /\ UNCHANGED << source, last_sync_time, checkins, runs, last_sync_raw, last_sync_dt,
                    global_max_log_date, checkin_count, skipped_count, doc,
                    raised, len_before, last_pass, aborted >>

\* Lines 142-168 up to doc.save: one row of the loop.
ProcessRow(r) ==
    /\ pc[r] = "PROCESSING"
    /\ i[r] <= Len(logs[r])
    /\ LET row == logs[r][i[r]]
           user_id == row.UserId
           log_datetime == row.LogDate
           c1_direction == lower(row.C1)
           employee_id == Employee(user_id)
           skip == /\ skipped_count' = [skipped_count EXCEPT ![r] = @ + 1]
                   /\ i' = [i EXCEPT ![r] = @ + 1]
                   /\ UNCHANGED << pc, doc >>
       IN  /\ global_max_log_date' = [global_max_log_date EXCEPT ![r] =
                                        track_max(@, log_datetime)]
           /\ IF employee_id = None
              THEN skip
              ELSE \E last_checkin \in most_recent(Val(employee_id)) :
                   \E last_record \in most_recent(Val(employee_id)) :
                     LET direction == guess_checkin_type(user_id, c1_direction, last_checkin)
                     IN  IF \/ exists(Val(employee_id), log_datetime)
                            \/ within_interval(log_datetime, last_record)
                         THEN skip
                         ELSE /\ doc' = [doc EXCEPT ![r] =
                                   Some([employee |-> Val(employee_id),
                                         log_type |-> upper(direction),
                                         time |-> log_datetime])]
                              /\ pc' = [pc EXCEPT ![r] = "SAVING"]
                              /\ UNCHANGED << i, skipped_count >>
    /\ UNCHANGED << source, last_sync_time, checkins, runs, last_sync_raw,
                    last_sync_dt, logs, checkin_count, outcome, history >>

\* Lines 294-296 and 165-166: doc.save succeeds.
SaveOk(r) ==
    /\ pc[r] = "SAVING"
    /\ checkins' = Append(checkins, Val(doc[r]))
    /\ checkin_count' = [checkin_count EXCEPT ![r] = @ + 1]
    /\ doc' = [doc EXCEPT ![r] = None]
    /\ i' = [i EXCEPT ![r] = @ + 1]
    /\ pc' = [pc EXCEPT ![r] = "PROCESSING"]
    /\ aborted' = IF aborted # None /\ Val(aborted).rows # Range(logs[r])
                  THEN None ELSE aborted
    /\ UNCHANGED << source, last_sync_time, runs, last_sync_raw, last_sync_dt,
                    logs, global_max_log_date, skipped_count, outcome,
                    raised, len_before, probes, last_pass >>

\* Lines 297-303 and 167-168: doc.save raises; the row counts as skipped.
SaveError(r) ==
    /\ pc[r] = "SAVING"
    /\ skipped_count' = [skipped_count EXCEPT ![r] = @ + 1]
    /\ doc' = [doc EXCEPT ![r] = None]
    /\ i' = [i EXCEPT ![r] = @ + 1]
    /\ pc' = [pc EXCEPT ![r] = "PROCESSING"]
    /\ raised' = [raised EXCEPT ![r] = "save"]
    /\ aborted' = None
    /\ UNCHANGED << source, last_sync_time, checkins, runs, last_sync_raw, last_sync_dt,
                    logs, global_max_log_date, checkin_count, outcome,
                    len_before, probes, last_pass >>

\* LookupError handled per row: the row is skipped and the loop goes on
LookupError_skip_row(r) ==
    /\ pc[r] = "PROCESSING"
    /\ i[r] <= Len(logs[r])
    /\ raised' = [raised EXCEPT ![r] = "lookup"]
    /\ i' = [i EXCEPT ![r] = @ + 1]
    /\ skipped_count' = [skipped_count EXCEPT ![r] = @ + 1]
    /\ UNCHANGED << source, last_sync_time, checkins, runs, pc, last_sync_raw, last_sync_dt,
                    logs, global_max_log_date, checkin_count, doc, outcome,
                    len_before, probes, last_pass, aborted >>

\* What the log shows of a run that a lookup exception ends after it created
\* a checkin: its rows and, for the first such run over these rows, the size
\* of the sink it began with.  A run in which a save raised before is no such
\* run.
Interrupted(r) ==
    aborted' = IF raised[r] # "none" THEN None
               ELSE IF aborted # None /\ Val(aborted).rows = Range(logs[r]) THEN aborted
               ELSE IF checkin_count[r] > 0
                    THEN Some([rows |-> Range(logs[r]), len |-> len_before[r]])
                    ELSE aborted

\* Lines 183-188: a frappe.db lookup of the row (lines 151-158, 271, 276)
\* raises; the outer handler logs it and the run ends.
LookupError(r) ==
    /\ pc[r] = "PROCESSING"
    /\ i[r] <= Len(logs[r])
    /\ EndRun(r, "aborted")
    /\ raised' = [raised EXCEPT ![r] = "lookup"]
    /\ Interrupted(r)
    /\ UNCHANGED << source, last_sync_time, checkins, runs, locals,
                    len_before, probes, last_pass >>

\* The loop ran to its end: a pass over the rows, recorded when no save raised.
EndOfLoop(r) ==
    last_pass' = IF raised[r] = "none"
                 THEN Some(<< last_sync_dt[r], Range(logs[r]) >>)
                 ELSE last_pass

\* Lines 170-181: the loop is over; the cursor is set to the maximum LogDate.
Commit(r) ==
    /\ pc[r] = "PROCESSING"
    /\ i[r] > Len(logs[r])
    /\ last_sync_time' = IF global_max_log_date[r] # None
                         THEN strftime(Val(global_max_log_date[r]))
                         ELSE last_sync_time
    /\ EndRun(r, "committed")
    /\ EndOfLoop(r)
    /\ aborted' = None
    /\ UNCHANGED << source, checkins, runs, locals, raised, len_before, probes >>

\* Lines 171-177 raise (commit or set_single_value): the outer handler logs it.
CommitError(r) ==
    /\ pc[r] = "PROCESSING"
    /\ i[r] > Len(logs[r])
    /\ EndRun(r, "aborted")
    /\ EndOfLoop(r)
    /\ UNCHANGED << source, last_sync_time, checkins, runs, locals,
                    raised, len_before, probes, aborted >>

\* Lines 190-195 and the function's return: the connection is closed and the
\* call frame, with what the run knew, is gone.
Return(r) ==
    /\ pc[r] = "DONE"
    /\ pc' = [pc EXCEPT ![r] = "IDLE"]
    /\ outcome' = [outcome EXCEPT ![r] = "none"]
    /\ last_sync_raw' = [last_sync_raw EXCEPT ![r] = NoCursor]
    /\ last_sync_dt' = [last_sync_dt EXCEPT ![r] = 0]
    /\ logs' = [logs EXCEPT ![r] = <<>>]
    /\ i' = [i EXCEPT ![r] = 0]
    /\ global_max_log_date' = [global_max_log_date EXCEPT ![r] = None]
    /\ checkin_count' = [checkin_count EXCEPT ![r] = 0]
    /\ skipped_count' = [skipped_count EXCEPT ![r] = 0]
    /\ doc' = [doc EXCEPT ![r] = None]
    /\ raised' = [raised EXCEPT ![r] = "none"]
    /\ len_before' = [len_before EXCEPT ![r] = 0]
    /\ probes' = [probes EXCEPT ![r] = <<>>]
    /\ UNCHANGED << source, last_sync_time, checkins, runs, last_pass, aborted >>

\* The scheduler starts a run when no other run is active.
OneAtATime(r) == r = 1 /\ \A s \in Slots : Idle(s)

Next ==
    \/ DeviceLog
    \/ AdvanceClock
    \/ \E r \in Slots :
         \/ OneAtATime(r) /\ StartRun(r)
         \/ OneAtATime(r) /\ ConfigError(r)
         \/ OneAtATime(r) /\ ConnectError(r)
         \/ ResolveCurrent(r)
         \/ ResolveFallback(r)
         \/ ResolveError(r)
         \/ ProcessRow(r)
         \/ SaveOk(r)
         \/ SaveError(r)
         \/ LookupError(r)
         \/ Commit(r)
         \/ CommitError(r)
         \/ Return(r)

Spec == Init /\ [][Next]_vars

\* attendance() as the code has it, called while another call may be active:
\* the function takes no lock and reads no flag, so the steps of two calls
\* interleave.  The runs here meet no failure, and they come after the rows
\* were written.
NextOverlap ==
    \/ runs = 0 /\ DeviceLog
    \/ runs = 0 /\ AdvanceClock
    \/ \E r \in Slots :
         \/ StartRun(r)
         \/ ResolveCurrent(r)
         \/ ProcessRow(r)
         \/ SaveOk(r)
         \/ Commit(r)
         \/ Return(r)

SpecOverlap == Init /\ [][NextOverlap]_vars

\* The inputs of validate_or_default_sync_time around the minimum datetime:
\* clock readings less than, exactly and more than default_days after it, and
\* stored strings just below, at and just above it.
ClockEarly ==
    { timedelta_days(default_days) - Seconds(1),
      timedelta_days(default_days),
      timedelta_days(default_days) + Seconds(1) }

CursorsEarly ==
    { CursorStr(MIN_MSSQL_DATETIME - Seconds(1)),
      CursorStr(MIN_MSSQL_DATETIME),
      CursorStr(MIN_MSSQL_DATETIME + Seconds(1)) }

InitSanitise ==
    /\ now \in ClockEarly \cup Clock
    /\ tables = [n \in Tables |-> {}]
    /\ last_sync_time \in InitialCursors \cup CursorsEarly
    /\ checkins = <<>>
    /\ runs = 0
    /\ pc = [r \in Slots |-> "IDLE"]
    /\ last_sync_raw = [r \in Slots |-> NoCursor]
    /\ last_sync_dt = [r \in Slots |-> 0]
    /\ logs = [r \in Slots |-> <<>>]
    /\ i = [r \in Slots |-> 0]
    /\ global_max_log_date = [r \in Slots |-> None]
    /\ checkin_count = [r \in Slots |-> 0]
    /\ skipped_count = [r \in Slots |-> 0]
    /\ doc = [r \in Slots |-> None]
    /\ outcome = [r \in Slots |-> "none"]
    /\ raised = [r \in Slots |-> "none"]
    /\ len_before = [r \in Slots |-> 0]
    /\ probes = [r \in Slots |-> <<>>]
    /\ last_pass = None
    /\ aborted = None

\* The runs of Spec over a source of at most one row, saves and lookups
\* succeeding.
NextSanitise ==
    \/ TotalRows < 1 /\ DeviceLog
    \/ AdvanceClock
    \/ \E r \in Slots :
         \/ OneAtATime(r) /\ StartRun(r)
         \/ OneAtATime(r) /\ ConfigError(r)
         \/ OneAtATime(r) /\ ConnectError(r)
         \/ ResolveCurrent(r)
         \/ ResolveFallback(r)
         \/ ResolveError(r)
         \/ ProcessRow(r)
         \/ SaveOk(r)
         \/ Commit(r)
         \/ Return(r)

SpecSanitise == InitSanitise /\ [][NextSanitise]_vars


\* ----------------------------------------------------------------------
\* Properties.  They read the sink and the runs directly.
\* ----------------------------------------------------------------------
Employees == { EmployeeTable[u] : u \in DOMAIN EmployeeTable }

\* The positions in checkins of an employee's records
EventsOf(e) == { k \in 1..Len(checkins) : checkins[k].employee = e }
EventTimes(e) == { checkins[k].time : k \in EventsOf(e) }

SetMin(S) == CHOOSE x \in S : \A y \in S : x <= y
SetMax(S) == CHOOSE x \in S : \A y \in S : y <= x

\* The rows of run r whose loop iteration is over, and those of employee e
Handled(r) == 1..(i[r] - 1)
HandledOf(r, e) ==
    { k \in Handled(r) : /\ logs[r][k].UserId \in DOMAIN EmployeeTable
                         /\ EmployeeTable[logs[r][k].UserId] = e }
HandledTimes(r, e) == { logs[r][k].LogDate : k \in HandledOf(r, e) }

\* Employee e had no checkin when run r started
NoPrior(r, e) == \A k \in 1..len_before[r] : checkins[k].employee # e

InLoop(r) == pc[r] \in {"PROCESSING", "SAVING"}

\* C1: Cursor monotonicity.  When a run has ended (commit, empty fetch or
\* any abort), the stored cursor is a timestamp not earlier than the timestamp
\* stored when the run began; a stored timestamp is never replaced by an
\* absent or unparsable value.
C1_CursorMonotone ==
    \A r \in Slots :
        (pc[r] = "DONE" /\ last_sync_raw[r].kind = "str")
        => /\ last_sync_time.kind = "str"
           /\ last_sync_time.t >= last_sync_raw[r].t

C1_Witness ==
    \E r \in Slots :
        /\ pc[r] = "DONE"
        /\ outcome[r] = "committed"
        /\ last_sync_raw[r].kind = "str"
        /\ last_sync_time.t > last_sync_raw[r].t

\* C2: Idempotency.  A run whose bound and set of fetched rows are those of
\* the latest loop that ran to its end with every save succeeding (a first
\* pass) creates no checkin: it never reaches doc.save, its checkin_count
\* stays 0 and the sink holds what it held when the run began.
C2_Idempotent ==
    \A r \in Slots :
        (InLoop(r) /\ last_pass = Some(<< last_sync_dt[r], Range(logs[r]) >>))
        => /\ pc[r] = "PROCESSING"
           /\ checkin_count[r] = 0
           /\ Len(checkins) = len_before[r]

C2_Witness ==
    \E r \in Slots :
        /\ pc[r] = "PROCESSING"
        /\ last_pass = Some(<< last_sync_dt[r], Range(logs[r]) >>)
        /\ i[r] > Len(logs[r])
        /\ Len(logs[r]) >= 2
        /\ \E e \in Employees :
             /\ EventsOf(e) # {}
             /\ \E k \in HandledOf(r, e) : logs[r][k].LogDate \notin EventTimes(e)

\* C3: The sink never holds two checkins with the same employee and time.
C3_NoDuplicate ==
    \A j, k \in 1..Len(checkins) :
        (j # k /\ checkins[j].employee = checkins[k].employee)
        => checkins[j].time # checkins[k].time

\* Two rows of one registered user and one punch time went through the loop.
C3_Witness ==
    \E r \in Slots : \E e \in Employees : \E j, k \in HandledOf(r, e) :
        /\ j # k
        /\ logs[r][j].LogDate = logs[r][k].LogDate
        /\ logs[r][j].LogDate \in EventTimes(e)

\* C4: Any two checkins of one employee are at least 1800 seconds apart in
\* punch time (the checkin history starts empty).
C4_MinInterval ==
    \A j, k \in 1..Len(checkins) :
        (j # k /\ checkins[j].employee = checkins[k].employee)
        => \/ checkins[j].time - checkins[k].time >= Seconds(MinIntervalSeconds)
           \/ checkins[k].time - checkins[j].time >= Seconds(MinIntervalSeconds)

\* An employee has two checkins, and a row in between them was handled.
C4_Witness ==
    \E r \in Slots : \E e \in Employees :
        /\ Cardinality(EventsOf(e)) >= 2
        /\ \E t \in HandledTimes(r, e) :
             t \notin EventTimes(e) /\ t > SetMin(EventTimes(e))

\* The rows of employee e handled so far by run r are at exactly two punch
\* times, e had no checkin before the run and no save of the run has raised.
TwoTimes(r, e) ==
    /\ pc[r] \in {"PROCESSING", "SAVING", "DONE"}
    /\ raised[r] = "none"
    /\ NoPrior(r, e)
    /\ Cardinality(HandledTimes(r, e)) = 2

Gap(r, e) == SetMax(HandledTimes(r, e)) - SetMin(HandledTimes(r, e))

\* C5: Debounce.  Two rows of an employee without history at punch times t
\* and t+d, 0 < d < 1800 s, leave exactly one checkin of the employee, the
\* one at t.
C5_Debounce ==
    \A r \in Slots : \A e \in Employees :
        (TwoTimes(r, e) /\ Gap(r, e) < Seconds(MinIntervalSeconds))
        => /\ Cardinality(EventsOf(e)) = 1
           /\ EventTimes(e) = { SetMin(HandledTimes(r, e)) }

C5_Witness ==
    \E r \in Slots : \E e \in Employees :
        /\ TwoTimes(r, e)
        /\ Gap(r, e) < Seconds(MinIntervalSeconds)
        /\ Gap(r, e) > Seconds(1)
        /\ EventTimes(e) = { SetMin(HandledTimes(r, e)) }


\* The original wording of C6: two rows exactly 1800 s apart leave one
\* checkin, two rows 1801 s apart leave two.
C6_Original ==
    \A r \in Slots : \A e \in Employees :
        /\ (TwoTimes(r, e) /\ Gap(r, e) = Seconds(MinIntervalSeconds))
           => Cardinality(EventsOf(e)) = 1
        /\ (TwoTimes(r, e) /\ Gap(r, e) = Seconds(MinIntervalSeconds + 1))
           => Cardinality(EventsOf(e)) = 2

\* C6: Debounce boundary, as the code has it.  Two rows of an employee without
\* history whose punch times are exactly 1800 s apart leave two checkins, one
\* at each time (only diff < 1800 skips), and so do two rows 1801 s apart.
C6_Boundary ==
    \A r \in Slots : \A e \in Employees :
        ( /\ TwoTimes(r, e)
          /\ \/ Gap(r, e) = Seconds(MinIntervalSeconds)
             \/ Gap(r, e) = Seconds(MinIntervalSeconds + 1) )
        => /\ Cardinality(EventsOf(e)) = 2
           /\ EventTimes(e) = HandledTimes(r, e)

C6_Witness ==
    \E r \in Slots : \E e \in Employees :
        /\ TwoTimes(r, e)
        /\ Gap(r, e) = Seconds(MinIntervalSeconds)
        /\ EventTimes(e) = HandledTimes(r, e)

\* C7: Direction alternation.  Ordered by punch time, the checkins of an
\* employee are IN, OUT, IN, ...: a checkin with an even number of earlier
\* checkins of the employee is IN, one with an odd number is OUT.  It holds
\* in every state, so after every skipped row and every failed save.
C7_Alternation ==
    \A e \in Employees : \A k \in EventsOf(e) :
        checkins[k].log_type =
            IF Cardinality({ j \in EventsOf(e) : checkins[j].time < checkins[k].time }) % 2 = 0
            THEN "IN" ELSE "OUT"

\* An employee has three checkins: IN, OUT and IN again.
C7_Witness ==
    \E e \in Employees :
        /\ Cardinality(EventsOf(e)) = 3
        /\ \E k \in EventsOf(e) : checkins[k].log_type = "OUT"

\* C8: Unmatched subject.  The loop iteration of a row whose UserId is no
\* employee's attendance_device_id creates no checkin and prepares none, moves
\* to the next row with the run still in its loop, and leaves
\* global_max_log_date at or above the row's LogDate.
C8_Unmatched ==
    [][ \A r \in Slots :
          ( /\ pc[r] = "PROCESSING"
            /\ i[r] <= Len(logs[r])
            /\ logs[r][i[r]].UserId \notin DOMAIN EmployeeTable
            /\ pc'[r] # "DONE" )
          => /\ checkins' = checkins
             /\ doc' = doc
             /\ pc'[r] = "PROCESSING"
             /\ i'[r] = i[r] + 1
             /\ global_max_log_date'[r] # None
             /\ Val(global_max_log_date'[r]) >= logs[r][i[r]].LogDate ]_vars

\* An unmatched row was handled, it is the latest row seen, and a later
\* iteration of the same loop created a checkin or the loop is at its end.
C8_Witness ==
    \E r \in Slots : \E k \in Handled(r) :
        /\ pc[r] = "PROCESSING"
        /\ logs[r][k].UserId \notin DOMAIN EmployeeTable
        /\ k > 1
        /\ logs[r][k].LogDate > logs[r][k - 1].LogDate
        /\ global_max_log_date[r] = Some(logs[r][k].LogDate)

\* The original wording of C9: whatever raised while a row was processed
\* (a lookup or the save), the run ended there, aborted, with the cursor as
\* it was.
C9_Original ==
    \A r \in Slots :
        raised[r] # "none"
        => /\ pc[r] = "DONE"
           /\ outcome[r] = "aborted"
           /\ last_sync_time = last_sync_raw[r]

\* C9: An exception raised by the identity lookup or a checkin-history lookup
\* of a row ends the run there: the row and the rows after it are left
\* unprocessed, the run is aborted, the cursor is the one read at the start of
\* the run and the checkins the run created before are in the sink.  (An
\* exception of doc.save is caught in create_employee_checkin: the row counts
\* as skipped and the loop goes on.)
C9_LookupAborts ==
    \A r \in Slots :
        raised[r] = "lookup"
        => /\ pc[r] = "DONE"
           /\ outcome[r] = "aborted"
           /\ i[r] <= Len(logs[r])
           /\ last_sync_time = last_sync_raw[r]
           /\ Len(checkins) = len_before[r] + checkin_count[r]

C9_Witness ==
    \E r \in Slots :
        /\ raised[r] = "lookup"
        /\ pc[r] = "DONE"
        /\ checkin_count[r] > 0
        /\ i[r] < Len(logs[r])

\* The table of the month before the month of t
PreviousPeriod(t) ==
    IF MonthOf(t) = 1 THEN << 12, YearOf(t) - 1 >> ELSE << MonthOf(t) - 1, YearOf(t) >>

IsAscending(rows) ==
    \A j, k \in 1..Len(rows) : j < k => rows[j].LogDate <= rows[k].LogDate

\* C10: Fallback resolution.  The second table a run probes is the table of
\* the previous month (December of the previous year in January); the rows a
\* run processes after a failed probe of the current table are the rows of
\* that table after the run's bound, in ascending order; a run whose two
\* probes failed ends with the cursor it read and the sink as it was.
C10_Fallback ==
    \A r \in Slots :
        /\ Len(probes[r]) = 2
           => /\ probes[r][1].table = << MonthOf(probes[r][1].at), YearOf(probes[r][1].at) >>
              /\ probes[r][2].table = PreviousPeriod(probes[r][2].at)
        /\ (Len(probes[r]) = 2 /\ InLoop(r))
           => /\ Range(logs[r]) =
                   { row \in tables[PreviousPeriod(now)] : row.LogDate > last_sync_dt[r] }
              /\ Len(logs[r]) = Cardinality(Range(logs[r]))
              /\ IsAscending(logs[r])
        /\ (pc[r] = "DONE" /\ outcome[r] = "source_abort")
           => /\ Len(probes[r]) = 2
              /\ last_sync_time = last_sync_raw[r]
              /\ Len(checkins) = len_before[r]

\* In January the probe of the current table failed and a row of the
\* December table of the year before has become a checkin.
C10_Witness ==
    \E r \in Slots :
        /\ Len(probes[r]) = 2
        /\ MonthOf(now) = 1
        /\ probes[r][2].table = << 12, YearOf(now) - 1 >>
        /\ pc[r] = "PROCESSING"
        /\ checkin_count[r] > 0

\* The checkins one uninterrupted run with every save succeeding adds for
\* employee e from rows at the punch times T, last being None or <<e's latest
\* checkin>>: the earliest time at least 1800 s after the latest checkin, with
\* the other direction, and so on.
RECURSIVE Uninterrupted(_, _, _)
Uninterrupted(e, T, last) ==
    LET ok == { t \in T : last = None \/ t - Val(last).time >= Seconds(MinIntervalSeconds) }
    IN  IF ok = {} THEN {}
        ELSE LET rec == [employee |-> e,
                         log_type |-> IF last # None /\ Val(last).log_type = "IN"
                                      THEN "OUT" ELSE "IN",
                         time |-> SetMin(ok)]
             IN  {rec} \cup Uninterrupted(e, T \ {rec.time}, Some(rec))

\* The sink after one uninterrupted run over rows, begun with the first len
\* records of checkins.
AfterOneRun(rows, len) ==
    LET prior == { checkins[k] : k \in 1..len }
        of(e) == { c \in prior : c.employee = e }
        latest(e) == IF of(e) = {} THEN None
                     ELSE Some(CHOOSE c \in of(e) : \A d \in of(e) : d.time <= c.time)
        times(e) == { row.LogDate : row \in { x \in rows : Employee(x.UserId) = Some(e) } }
    IN  prior \cup UNION { Uninterrupted(e, times(e), latest(e)) : e \in Employees }

\* Run r is at the end of its loop, no save raised, and its rows are those of
\* the run(s) before it that a lookup exception ended.
Recovered(r) ==
    /\ pc[r] = "PROCESSING"
    /\ i[r] > Len(logs[r])
    /\ raised[r] = "none"
    /\ aborted # None
    /\ Val(aborted).rows = Range(logs[r])

\* C11: Recovery after a partial batch.  When a run that a lookup exception
\* ended part-way (saves before it succeeding, cursor as it was) is followed
\* by a run that takes the same rows through its whole loop, the sink holds
\* exactly the checkins (employee, time, direction) that one uninterrupted run
\* over these rows leaves, each of them once.
C11_Recovery ==
    \A r \in Slots :
        Recovered(r)
        => /\ Range(checkins) = AfterOneRun(Range(logs[r]), Val(aborted).len)
           /\ Len(checkins) = Cardinality(Range(checkins))

\* The aborted run had created a checkin, and the later run skipped that row
\* again and created a checkin of its own.
C11_Witness ==
    \E r \in Slots :
        /\ Recovered(r)
        /\ len_before[r] > Val(aborted).len
        /\ checkin_count[r] > 0

\* Run r has ended on its configuration: get_mssql_config returned None or
\* raised.
ConfigEnded(r) == pc[r] = "DONE" /\ outcome[r] \in {"config_abort", "raised"}

\* C12: Configuration errors.  A run whose configuration lacks a connection
\* parameter or has a port that is no integer ends before any connection
\* attempt (no table is probed) with the cursor as it was and no checkin
\* created, and it ends by a logged return, not by an exception raised to the
\* scheduler.
C12_ConfigErrors ==
    \A r \in Slots :
        ConfigEnded(r)
        => /\ outcome[r] = "config_abort"
           /\ probes[r] = <<>>
           /\ last_sync_time = last_sync_raw[r]
           /\ Len(checkins) = len_before[r]

\* The punch times of the rows run r fetched
FetchedTimes(r) == { logs[r][k].LogDate : k \in 1..Len(logs[r]) }

\* C13: After a run that took a non-empty batch through its whole loop and
\* committed, the stored cursor is the maximum punch time over all fetched
\* rows, skipped rows (unmatched, duplicate, debounced, failed save) included.
C13_CursorIsMax ==
    \A r \in Slots :
        (pc[r] = "DONE" /\ outcome[r] = "committed")
        => /\ last_sync_time.kind = "str"
           /\ strptime(last_sync_time) = SetMax(FetchedTimes(r))

\* C14: The stored cursor is written only by the commit step.  A step that
\* changes last_sync_time is the step of a run that stands at the end of its
\* loop over a non-empty batch and ends committed; every other step (cursor
\* defaulting and clamping at the start, configuration and connection
\* failure, table resolution, fetching, an empty fetch, every per-row step,
\* every abort) leaves it as it is.
C14_OnlyCommitWrites ==
    [][ last_sync_time' # last_sync_time
        => \E r \in Slots :
             /\ pc[r] = "PROCESSING"
             /\ i[r] > Len(logs[r])
             /\ Len(logs[r]) > 0
             /\ pc'[r] = "DONE"
             /\ outcome'[r] = "committed" ]_vars

\* A run that found no usable cursor (its bound was defaulted) fetched rows,
\* had rows skipped and committed: the store kept its value up to the commit
\* and holds a timestamp now.
C14_Witness ==
    \E r \in Slots :
        /\ pc[r] = "DONE"
        /\ outcome[r] = "committed"
        /\ last_sync_raw[r].kind # "str"
        /\ last_sync_time.kind = "str"
        /\ skipped_count[r] > 0

\* C15: Overlapping runs.  The engine has nothing that keeps two runs apart:
\* whatever the other run is doing, an idle slot can start a run, and a run
\* that has made its exists and most-recent checks saves its checkin even
\* when the other run has meanwhile created one for the same employee and
\* time.  (The interleaving that ends in two checkins for one employee and
\* time is C15_Witness.)
C15_NothingPreventsOverlap ==
    \A r \in Slots :
        /\ (Idle(r) /\ runs < MaxRuns) => ENABLED StartRun(r)
        /\ (pc[r] = "SAVING" /\ exists(Val(doc[r]).employee, Val(doc[r]).time))
           => ENABLED SaveOk(r)

\* Two runs were active at once over the same rows, each created a checkin,
\* and the sink holds two checkins with one employee and time.
C15_Witness ==
    /\ \A r \in Slots : pc[r] = "PROCESSING" /\ checkin_count[r] > 0
    /\ Range(logs[1]) = Range(logs[2])
    /\ \E j, k \in 1..Len(checkins) :
         /\ j < k
         /\ checkins[j].employee = checkins[k].employee
         /\ checkins[j].time = checkins[k].time

TwoDays == Seconds(2 * 86400)

\* C16: Cursor sanitising.  The bound of a run is the stored cursor when that
\* is a timestamp string and the clock reading minus 2 days when it is absent
\* or unparsable; a value below the minimum datetime is replaced by the
\* minimum in both cases, so the bound is never below it; and the rows a run
\* processes are the rows of the table it fetched from that are after the
\* bound.
C16_Sanitised ==
    \A r \in Slots :
        pc[r] # "IDLE"
        => /\ (last_sync_raw[r].kind = "str" /\ last_sync_raw[r].t >= MIN_MSSQL_DATETIME)
              => last_sync_dt[r] = last_sync_raw[r].t
           /\ (last_sync_raw[r].kind = "str" /\ last_sync_raw[r].t < MIN_MSSQL_DATETIME)
              => last_sync_dt[r] = MIN_MSSQL_DATETIME
           /\ (last_sync_raw[r].kind # "str" /\ now - TwoDays >= MIN_MSSQL_DATETIME)
              => last_sync_dt[r] = now - TwoDays
           /\ (last_sync_raw[r].kind # "str" /\ now - TwoDays < MIN_MSSQL_DATETIME)
              => last_sync_dt[r] = MIN_MSSQL_DATETIME
           /\ last_sync_dt[r] >= MIN_MSSQL_DATETIME
           /\ InLoop(r)
              => Range(logs[r]) =
                   { row \in tables[probes[r][Len(probes[r])].table] :
                       row.LogDate > last_sync_dt[r] }

\* A run found an unparsable cursor at a clock reading less than 2 days after
\* the minimum datetime: its bound is the minimum.
C16_Witness ==
    \E r \in Slots :
        /\ pc[r] = "RESOLVING"
        /\ last_sync_raw[r].kind = "invalid"
        /\ now - TwoDays < MIN_MSSQL_DATETIME
        /\ last_sync_dt[r] = MIN_MSSQL_DATETIME

\* Rows without their direction hint
Erased(rows) == { [UserId |-> row.UserId, LogDate |-> row.LogDate] : row \in rows }

\* Run r took its rows through the whole loop with every lookup and save
\* succeeding.
RanThrough(r) ==
    /\ raised[r] = "none"
    /\ \/ pc[r] = "PROCESSING" /\ i[r] > Len(logs[r])
       \/ pc[r] = "DONE" /\ outcome[r] = "committed"

\* C17: The direction hint has no influence.  What a run leaves is a function
\* of the sink it began with and of its rows without their hints: the sink
\* after the loop is the one computed from the UserId and LogDate of the rows
\* alone, and the committed cursor is the whole second of their maximum
\* LogDate.  Two runs from the same cursor and sink over batches that differ
\* only in the hints therefore create the same checkins and store the same
\* cursor.
C17_HintIgnored ==
    \A r \in Slots :
        RanThrough(r)
        => /\ Range(checkins) = AfterOneRun(Erased(Range(logs[r])), len_before[r])
           /\ pc[r] = "DONE"
              => last_sync_time =
                   strftime(SetMax({ row.LogDate : row \in Erased(Range(logs[r])) }))

\* A run is through with two rows of one user and punch time whose hints
\* differ ("in" and "OUT"), and they left one checkin, an IN, created by the
\* run.
C17_Witness ==
    \E r \in Slots :
        /\ RanThrough(r)
        /\ checkin_count[r] > 0
        /\ \E j, k \in 1..Len(logs[r]) :
             /\ logs[r][j].UserId = logs[r][k].UserId
             /\ logs[r][j].LogDate = logs[r][k].LogDate
             /\ logs[r][j].C1 = "in"
             /\ logs[r][k].C1 = "OUT"
             /\ \E c \in Range(checkins) :
                  /\ Employee(logs[r][k].UserId) = Some(c.employee)
                  /\ c.time = logs[r][k].LogDate
                  /\ c.log_type = "IN"

\* C18: No refetch after a completed run.  When a run has taken a batch
\* through its whole loop and committed, no row of that batch satisfies the
\* fetch predicate of the next run, LogDate > bound, the bound being the
\* sanitised stored cursor; punch times may carry a fraction of a second.
C18_NoRefetch ==
    \A r \in Slots :
        (pc[r] = "DONE" /\ outcome[r] = "committed")
        => \A k \in 1..Len(logs[r]) :
             ~(logs[r][k].LogDate >
                 validate_or_default_sync_time(last_sync_time, now, default_days))

\* The rows of matched employees in the source, whatever their table
MatchedRows == { row \in UNION { tables[n] : n \in Tables } : Employee(row.UserId) # None }

\* C19: No punch is missed across a period rollover.  A row of a matched
\* employee that was after the bound of a run and that the run did not fetch
\* (it sits in the table of the previous month while the run read the current
\* one) is still after the stored cursor when the run has committed, so that a
\* later run can fetch it.
C19_NoPunchMissed ==
    \A r \in Slots :
        (pc[r] = "DONE" /\ outcome[r] = "committed")
        => \A row \in MatchedRows :
             (row.LogDate > last_sync_dt[r] /\ row \notin Range(logs[r]))
             => row.LogDate > strptime(last_sync_time)

\* C20: A punch older than the employee's latest checkin never materialises.
\* The checkins of an employee are created in the order of their times: no
\* checkin is created with a time below that of a checkin the employee already
\* has, however far apart the two times are (the test is on the signed
\* difference, which is negative for an older punch).
C20_OlderNeverCreated ==
    \A j, k \in 1..Len(checkins) :
        (j < k /\ checkins[j].employee = checkins[k].employee)
        => checkins[j].time < checkins[k].time

\* A run has handled a row of an employee whose latest checkin, created before
\* the run, is more than 1800 s after the row's punch time, and the row left
\* no checkin.
C20_Witness ==
    \E r \in Slots : \E e \in Employees : \E k \in HandledOf(r, e) :
        /\ logs[r][k].LogDate \notin EventTimes(e)
        /\ \E j \in 1..len_before[r] :
             /\ checkins[j].employee = e
             /\ checkins[j].time - logs[r][k].LogDate > Seconds(MinIntervalSeconds)

====
